---- MODULE Spec2Model ----
(***************************************************************************)
(* A model of src/lexer.cpp: the scanner gettok, the one-token lookahead   *)
(* CurTok, the recursive-descent parser with its precedence-climbing loop  *)
(* ParseBinOpRHS, and the driver MainLoop.                                 *)
(*                                                                         *)
(* Characters are their ASCII codes, EOF is -1 as in <cstdio>.  A token is *)
(* an integer exactly as in the source: a negative Token enumerator or the *)
(* code of an unknown character.  Strings are sequences of codes.          *)
(***************************************************************************)
EXTENDS Integers, Sequences, FiniteSets, TLC

VARIABLES
    input,            \* stdin: the characters getchar() has not returned yet
    LastChar,         \* gettok's static int LastChar
    IdentifierStr,    \* static std::string IdentifierStr
    NumVal,           \* static double NumVal
    CurTok,           \* static int CurTok
    BinopPrecedence,  \* static std::map<char,int> BinopPrecedence
    pc,               \* where main is: "start", "loop", "done"; "lex" for the scanner alone
    input0,           \* history: the whole of stdin as it was at the start
    nread,            \* history: number of getchar() calls made
    ntok,             \* history: the place of the lookahead CurTok in the token stream
    toks,             \* history: the tokens returned by gettok, in order
    last              \* history: what the last driver iteration did

vars == <<input, LastChar, IdentifierStr, NumVal, CurTok, BinopPrecedence,
          pc, input0, nread, ntok, toks, last>>

-----------------------------------------------------------------------------
(* Bounds of the model *)

MaxLexLen == 4
MaxCalls == 6
MaxLexemes == 4
MaxOperands == 4
MaxParams == 2

-----------------------------------------------------------------------------
(* enum Token, EOF and the character literals the source names *)

EOF == -1
tok_eof == -1
tok_def == -2
tok_extern == -3
tok_identifier == -4
tok_number == -5

CH_SPACE == 32
CH_NL == 10
CH_CR == 13
CH_HASH == 35
CH_DOT == 46
CH_LPAREN == 40
CH_RPAREN == 41
CH_COMMA == 44
CH_SEMI == 59
CH_LT == 60
CH_PLUS == 43
CH_MINUS == 45
CH_STAR == 42

STR_def == <<100, 101, 102>>
STR_extern == <<101, 120, 116, 101, 114, 110>>

(* <cctype> in the "C" locale *)
isspace(c) == c \in {32, 9, 10, 11, 12, 13}
isdigit(c) == c \in 48..57
isalpha(c) == c \in (65..90) \cup (97..122)
isalnum(c) == isalpha(c) \/ isdigit(c)
isascii(c) == c \in 0..127

-----------------------------------------------------------------------------
(* strtod on a run of digits and '.': the longest prefix digits [. digits]  *)
(* with at least one digit is converted, anything else gives 0.  The value *)
(* is the decimal m / 10^e with no trailing zero in the fraction.          *)

RECURSIVE DigitRun(_)
DigitRun(str) ==
    IF str # <<>> /\ isdigit(Head(str)) THEN <<Head(str)>> \o DigitRun(Tail(str))
    ELSE <<>>

RECURSIVE DigitsValue(_, _)
DigitsValue(acc, str) ==
    IF str = <<>> THEN acc
    ELSE DigitsValue(acc * 10 + (Head(str) - 48), Tail(str))

RECURSIVE Normalise(_, _)
Normalise(m, e) ==
    IF e > 0 /\ m % 10 = 0 THEN Normalise(m \div 10, e - 1)
    ELSE [m |-> m, e |-> e]

strtod(str) ==
    LET ip == DigitRun(str)
        rest == SubSeq(str, Len(ip) + 1, Len(str))
        fp == IF rest # <<>> /\ Head(rest) = CH_DOT THEN DigitRun(Tail(rest)) ELSE <<>>
    IN  IF ip = <<>> /\ fp = <<>> THEN [m |-> 0, e |-> 0]
        ELSE Normalise(DigitsValue(0, ip \o fp), Len(fp))

ZeroVal == [m |-> 0, e |-> 0]

-----------------------------------------------------------------------------
(* The AST classes.  Null is the empty unique_ptr. *)

Null == [k |-> "null"]
NumberExprAST(Val) == [k |-> "Number", Val |-> Val]
VariableExprAST(Name) == [k |-> "Variable", Name |-> Name]
BinaryExprAST(Op, LHS, RHS) == [k |-> "Binary", Op |-> Op, LHS |-> LHS, RHS |-> RHS]
CallExprAST(Callee, Args) == [k |-> "Call", Callee |-> Callee, Args |-> Args]
PrototypeAST(Name, Args) == [k |-> "Prototype", Name |-> Name, Args |-> Args]
FunctionAST(Proto, Body) == [k |-> "Function", Proto |-> Proto, Body |-> Body]

-----------------------------------------------------------------------------
(* The scanner.  s is the record of the statics the scanner and the parser *)
(* share, with the history counters.                                       *)
(*                                                                         *)
(* C++ evaluates an argument, and the initialiser of a local, once, before *)
(* it is used.  Val({e : x \in {d}}) is e with x bound to the value of d:  *)
(* it stands for a local  auto x = d;  and for a parameter passed by value. *)

Val(S) == CHOOSE v \in S : TRUE

\* LastChar = getchar()
ReadChar(s0) ==
    Val({ [s EXCEPT !.LastChar = IF s.in = <<>> THEN EOF ELSE Head(s.in),
                    !.in = IF s.in = <<>> THEN <<>> ELSE Tail(s.in),
                    !.nread = @ + 1]
          : s \in {s0} })

\* while (isspace(LastChar)) LastChar = getchar();
RECURSIVE SkipWhitespace(_)
SkipWhitespace(s0) ==
    Val({ IF isspace(s.LastChar) THEN SkipWhitespace(ReadChar(s)) ELSE s
          : s \in {s0} })

\* while (isalnum((LastChar = getchar()))) IdentifierStr += LastChar;
RECURSIVE IdentLoop(_)
IdentLoop(s0) ==
    Val({ IF isalnum(t.LastChar)
          THEN IdentLoop([t EXCEPT !.IdentifierStr = Append(@, t.LastChar)])
          ELSE t
          : t \in {ReadChar(s0)} })

\* do { NumStr += LastChar; LastChar = getchar(); } while (isdigit(LastChar) || LastChar == '.');
RECURSIVE NumLoop(_, _)
NumLoop(s0, NumStr0) ==
    Val({ Val({ IF isdigit(t.LastChar) \/ t.LastChar = CH_DOT
                THEN NumLoop(t, NumStr)
                ELSE [s |-> t, NumStr |-> NumStr]
                : t \in {ReadChar(s)} })
          : s \in {s0}, NumStr \in {Append(NumStr0, s0.LastChar)} })

\* a comment loop that stops at '\n' alone
RECURSIVE CommentLoop(_)
CommentLoop_nlOnly(s0) ==
    Val({ IF t.LastChar # EOF /\ t.LastChar # CH_NL
          THEN CommentLoop(t)
          ELSE t
          : t \in {ReadChar(s0)} })

\* do LastChar = getchar(); while (LastChar != EOF && LastChar != '\n' && LastChar != '\r');
CommentLoop(s0) ==
    Val({ IF t.LastChar # EOF /\ t.LastChar # CH_NL /\ t.LastChar # CH_CR
          THEN CommentLoop(t)
          ELSE t
          : t \in {ReadChar(s0)} })

\* the end of gettok without the "Don't consume EOF" test
EmitChar_noEofTest(s0) ==
    Val({ [s |-> ReadChar(s), tok |-> s.LastChar] : s \in {s0} })

\* if (LastChar == EOF) return tok_eof; ThisChar = LastChar; LastChar = getchar(); return ThisChar;
EmitChar(s0) ==
    Val({ IF s.LastChar = EOF THEN [s |-> s, tok |-> tok_eof]
          ELSE [s |-> ReadChar(s), tok |-> s.LastChar]
          : s \in {s0} })

\* gettok maps the statics to the statics after the call and the token returned
RECURSIVE gettok(_)
gettok(s0) ==
    Val({ IF isalpha(s.LastChar)
          THEN Val({ [s |-> t,
                      tok |-> IF t.IdentifierStr = STR_def THEN tok_def
                              ELSE IF t.IdentifierStr = STR_extern THEN tok_extern
                              ELSE tok_identifier]
                     : t \in {IdentLoop([s EXCEPT !.IdentifierStr = <<s.LastChar>>])} })
          ELSE IF isdigit(s.LastChar) \/ s.LastChar = CH_DOT
          THEN Val({ [s |-> [r.s EXCEPT !.NumVal = strtod(r.NumStr)], tok |-> tok_number]
                     : r \in {NumLoop(s, <<>>)} })
          ELSE IF s.LastChar = CH_HASH
          THEN Val({ IF c.LastChar # EOF THEN gettok(c) ELSE EmitChar(c)
                     : c \in {CommentLoop(s)} })
          ELSE EmitChar(s)
          : s \in {SkipWhitespace(s0)} })

-----------------------------------------------------------------------------
(* The statics as one record, and back *)

State ==
    [in |-> input, LastChar |-> LastChar, IdentifierStr |-> IdentifierStr,
     NumVal |-> NumVal, CurTok |-> CurTok, BinopPrecedence |-> BinopPrecedence,
     nread |-> nread, ntok |-> ntok, errs |-> <<>>, parenMiss |-> FALSE]

Install(s) ==
    /\ input' = s.in
    /\ LastChar' = s.LastChar
    /\ IdentifierStr' = s.IdentifierStr
    /\ NumVal' = s.NumVal
    /\ CurTok' = s.CurTok
    /\ BinopPrecedence' = s.BinopPrecedence
    /\ nread' = s.nread
    /\ ntok' = s.ntok

\* the statics before main runs, with inp on stdin
StartState(inp) ==
    [in |-> inp, LastChar |-> CH_SPACE, IdentifierStr |-> <<>>,
     NumVal |-> ZeroVal, CurTok |-> 0, BinopPrecedence |-> <<>>,
     nread |-> 0, ntok |-> 0, errs |-> <<>>, parenMiss |-> FALSE]

\* a token as its kind and the value it carries
TokenOf(r) ==
    [tok |-> r.tok,
     id |-> IF r.tok = tok_identifier THEN r.s.IdentifierStr ELSE <<>>,
     num |-> IF r.tok = tok_number THEN r.s.NumVal ELSE ZeroVal]

NoCall ==
    [kind |-> "none", result |-> Null, errs |-> <<>>, parenMiss |-> FALSE,
     ntok0 |-> 0, endNtok |-> 0, endTok |-> 0, endNread |-> 0]

\* the record of a driver iteration that called a parse entry point
CallRecord(kind, h) ==
    [kind |-> kind, result |-> h.p.r, errs |-> h.p.s.errs,
     parenMiss |-> h.p.s.parenMiss, ntok0 |-> ntok, endNtok |-> h.p.s.ntok,
     endTok |-> h.p.s.CurTok, endNread |-> h.p.s.nread]

-----------------------------------------------------------------------------
(* The parser.  Every parse function maps the statics to the statics after *)
(* the call and the pointer it returns: [s |-> ..., r |-> ...].            *)

\* return CurTok = gettok();  ntok follows the lookahead along the token stream
getNextToken(s0) ==
    Val({ [g.s EXCEPT !.CurTok = g.tok,
                      !.ntok = IF g.s.CurTok = tok_eof THEN @ ELSE @ + 1]
          : g \in {gettok(s0)} })

\* fprintf(stderr, "Error: %s\n", Str); return nullptr;
LogError(s, Str) == [s |-> [s EXCEPT !.errs = Append(@, Str)], r |-> Null]

LogErrorProto(s, Str) == LogError(s, Str)

ParseNumberExpr(s0) ==
    Val({ [s |-> getNextToken(s), r |-> NumberExprAST(s.NumVal)] : s \in {s0} })

\* std::map::operator[] : the entry is made, holding 0, when the key is absent
MapLookup(m, key) ==
    IF key \in DOMAIN m THEN m
    ELSE [x \in (DOMAIN m) \cup {key} |-> IF x = key THEN 0 ELSE m[x]]

\* BinopPrecedence[key] = val;
MapSet(m, key, val) ==
    [x \in (DOMAIN m) \cup {key} |-> IF x = key THEN val ELSE m[x]]

GetTokPrecedence(s0) ==
    Val({ IF ~isascii(s.CurTok) THEN [s |-> s, prec |-> -1]
          ELSE Val({ [s |-> [s EXCEPT !.BinopPrecedence = m],
                      prec |-> IF m[s.CurTok] <= 0 THEN -1 ELSE m[s.CurTok]]
                     : m \in {MapLookup(s.BinopPrecedence, s.CurTok)} })
          : s \in {s0} })

RECURSIVE ParseExpression(_)
RECURSIVE ParseBinOpRHS(_, _, _)

\* ParseParenExpr handing back the inner expression when ')' is missing
ParseParenExpr_partial(s0) ==
    Val({ IF V.r = Null THEN V
          ELSE IF V.s.CurTok # CH_RPAREN
          THEN [s |-> [V.s EXCEPT !.parenMiss = TRUE], r |-> V.r]
          ELSE [s |-> getNextToken(V.s), r |-> V.r]
          : V \in {ParseExpression(getNextToken(s0))} })

ParseParenExpr(s0) ==
    Val({ IF V.r = Null THEN V
          ELSE IF V.s.CurTok # CH_RPAREN
          THEN LogError([V.s EXCEPT !.parenMiss = TRUE], "expected ')'")
          ELSE [s |-> getNextToken(V.s), r |-> V.r]
          : V \in {ParseExpression(getNextToken(s0))} })

\* the while (true) loop of ParseIdentifierExpr: r is Null when the loop returns
\* nullptr, and Args is filled when it breaks
RECURSIVE ArgLoop(_, _)
ArgLoop(s0, Args0) ==
    Val({ IF Arg.r = Null THEN [s |-> Arg.s, r |-> Null, Args |-> Args]
          ELSE IF Arg.s.CurTok = CH_RPAREN
          THEN [s |-> Arg.s, r |-> Arg.r, Args |-> Append(Args, Arg.r)]
          ELSE IF Arg.s.CurTok # CH_COMMA
          THEN [s |-> LogError(Arg.s, "Expected ')' or ',' in argument list").s,
                r |-> Null, Args |-> Args]
          ELSE ArgLoop(getNextToken(Arg.s), Append(Args, Arg.r))
          : Arg \in {ParseExpression(s0)}, Args \in {Args0} })

ParseIdentifierExpr(s0) ==
    Val({ IF s1.CurTok # CH_LPAREN
          THEN [s |-> s1, r |-> VariableExprAST(IdName)]
          ELSE Val({ IF s2.CurTok = CH_RPAREN
                     THEN [s |-> getNextToken(s2), r |-> CallExprAST(IdName, <<>>)]
                     ELSE Val({ IF a.r = Null THEN [s |-> a.s, r |-> Null]
                                ELSE [s |-> getNextToken(a.s),
                                      r |-> CallExprAST(IdName, a.Args)]
                                : a \in {ArgLoop(s2, <<>>)} })
                     : s2 \in {getNextToken(s1)} })
          : IdName \in {s0.IdentifierStr}, s1 \in {getNextToken(s0)} })

ParsePrimary(s0) ==
    Val({ IF s.CurTok = tok_identifier THEN ParseIdentifierExpr(s)
          ELSE IF s.CurTok = tok_number THEN ParseNumberExpr(s)
          ELSE IF s.CurTok = CH_LPAREN THEN ParseParenExpr(s)
          ELSE LogError(s, "Unknown token: expected an expression")
          : s \in {s0} })

ParseExpression(s0) ==
    Val({ IF L.r = Null THEN L ELSE ParseBinOpRHS(L.s, 0, L.r)
          : L \in {ParsePrimary(s0)} })

\* the pending operator takes RHS also when it binds as tightly as BinOp
ParseBinOpRHS_le(s0, ExprPrec0, LHS0) ==
    Val({ IF t.prec < ExprPrec THEN [s |-> t.s, r |-> LHS]
          ELSE Val({ IF R.r = Null THEN R
                     ELSE Val({ Val({ IF R2.r = Null THEN R2
                                      ELSE ParseBinOpRHS(R2.s, ExprPrec,
                                               BinaryExprAST(t.s.CurTok, LHS, R2.r))
                                      : R2 \in {IF t.prec <= n.prec
                                                THEN ParseBinOpRHS(n.s, t.prec, R.r)
                                                ELSE [s |-> n.s, r |-> R.r]} })
                                : n \in {GetTokPrecedence(R.s)} })
                     : R \in {ParsePrimary(getNextToken(t.s))} })
          : t \in {GetTokPrecedence(s0)}, ExprPrec \in {ExprPrec0}, LHS \in {LHS0} })

\* the operator after RHS is never looked at
ParseBinOpRHS_flat(s0, ExprPrec0, LHS0) ==
    Val({ IF t.prec < ExprPrec THEN [s |-> t.s, r |-> LHS]
          ELSE Val({ IF R.r = Null THEN R
                     ELSE ParseBinOpRHS(R.s, ExprPrec,
                              BinaryExprAST(t.s.CurTok, LHS, R.r))
                     : R \in {ParsePrimary(getNextToken(t.s))} })
          : t \in {GetTokPrecedence(s0)}, ExprPrec \in {ExprPrec0}, LHS \in {LHS0} })

\* t is TokPrec with the statics after GetTokPrecedence, t.s.CurTok is BinOp,
\* n is NextPrec, R2 is RHS after the if (TokPrec < NextPrec)
ParseBinOpRHS(s0, ExprPrec0, LHS0) ==
    Val({ IF t.prec < ExprPrec THEN [s |-> t.s, r |-> LHS]
          ELSE Val({ IF R.r = Null THEN R
                     ELSE Val({ Val({ IF R2.r = Null THEN R2
                                      ELSE ParseBinOpRHS(R2.s, ExprPrec,
                                               BinaryExprAST(t.s.CurTok, LHS, R2.r))
                                      : R2 \in {IF t.prec < n.prec
                                                THEN ParseBinOpRHS(n.s, t.prec + 1, R.r)
                                                ELSE [s |-> n.s, r |-> R.r]} })
                                : n \in {GetTokPrecedence(R.s)} })
                     : R \in {ParsePrimary(getNextToken(t.s))} })
          : t \in {GetTokPrecedence(s0)}, ExprPrec \in {ExprPrec0}, LHS \in {LHS0} })

RECURSIVE ProtoArgLoop(_, _)

\* an argument loop that drops a name it has already seen
ProtoArgLoop_unique(s0, ArgNames0) ==
    Val({ IF s1.CurTok = tok_identifier
          THEN ProtoArgLoop(s1,
                   IF \E i \in 1..Len(ArgNames) : ArgNames[i] = s1.IdentifierStr
                   THEN ArgNames ELSE Append(ArgNames, s1.IdentifierStr))
          ELSE [s |-> s1, ArgNames |-> ArgNames]
          : s1 \in {getNextToken(s0)}, ArgNames \in {ArgNames0} })

\* while (getNextToken() == tok_identifier) ArgNames.push_back(IdentifierStr);
ProtoArgLoop(s0, ArgNames0) ==
    Val({ IF s1.CurTok = tok_identifier
          THEN ProtoArgLoop(s1, Append(ArgNames, s1.IdentifierStr))
          ELSE [s |-> s1, ArgNames |-> ArgNames]
          : s1 \in {getNextToken(s0)}, ArgNames \in {ArgNames0} })

ParsePrototype(s0) ==
    Val({ IF s.CurTok # tok_identifier
          THEN LogErrorProto(s, "Expected function name in prototype")
          ELSE Val({ IF s1.CurTok # CH_LPAREN
                     THEN LogErrorProto(s1, "Expected '(' in prototype")
                     ELSE Val({ IF a.s.CurTok # CH_RPAREN
                                THEN LogErrorProto(a.s, "Expected ')' in prototype")
                                ELSE [s |-> getNextToken(a.s),
                                      r |-> PrototypeAST(s.IdentifierStr, a.ArgNames)]
                                : a \in {ProtoArgLoop(s1, <<>>)} })
                     : s1 \in {getNextToken(s)} })
          : s \in {s0} })

\* ParseDefinition reporting the failure of ParsePrototype once more
ParseDefinition_relog(s0) ==
    Val({ IF Proto.r = Null THEN LogError(Proto.s, "Expected prototype")
          ELSE Val({ IF E.r # Null THEN [s |-> E.s, r |-> FunctionAST(Proto.r, E.r)]
                     ELSE E
                     : E \in {ParseExpression(Proto.s)} })
          : Proto \in {ParsePrototype(getNextToken(s0))} })

ParseDefinition(s0) ==
    Val({ IF Proto.r = Null THEN Proto
          ELSE Val({ IF E.r # Null THEN [s |-> E.s, r |-> FunctionAST(Proto.r, E.r)]
                     ELSE E
                     : E \in {ParseExpression(Proto.s)} })
          : Proto \in {ParsePrototype(getNextToken(s0))} })

ParseExtern(s0) == ParsePrototype(getNextToken(s0))

ParseTopLevelExpr(s0) ==
    Val({ IF E.r # Null
          THEN [s |-> E.s, r |-> FunctionAST(PrototypeAST(<<>>, <<>>), E.r)]
          ELSE E
          : E \in {ParseExpression(s0)} })

-----------------------------------------------------------------------------
(* The driver.  A handler maps the statics to [p |-> what the parse        *)
(* returned, with the statics at its return, s |-> the statics after the   *)
(* handler].                                                               *)

HandleDefinition(s0) ==
    Val({ [p |-> p, s |-> IF p.r # Null THEN p.s ELSE getNextToken(p.s)]
          : p \in {ParseDefinition(s0)} })

\* HandleExtern skipping two tokens for error recovery
HandleExtern_skipTwo(s0) ==
    Val({ [p |-> p, s |-> IF p.r # Null THEN p.s ELSE getNextToken(getNextToken(p.s))]
          : p \in {ParseExtern(s0)} })

HandleExtern(s0) ==
    Val({ [p |-> p, s |-> IF p.r # Null THEN p.s ELSE getNextToken(p.s)]
          : p \in {ParseExtern(s0)} })

\* HandleTopLevelExpression without the skip for error recovery
HandleTopLevelExpression_noSkip(s0) ==
    Val({ [p |-> p, s |-> p.s] : p \in {ParseTopLevelExpr(s0)} })

HandleTopLevelExpression(s0) ==
    Val({ [p |-> p, s |-> IF p.r # Null THEN p.s ELSE getNextToken(p.s)]
          : p \in {ParseTopLevelExpr(s0)} })

-----------------------------------------------------------------------------
(* The scanner alone: successive gettok calls on an input *)

LexAlphabet == {49, 97, CH_HASH, CH_NL, CH_CR, CH_SPACE, CH_PLUS, CH_DOT}

LexInputs == UNION {[1..n -> LexAlphabet] : n \in 0..MaxLexLen}

InitWith(inp, p) ==
    /\ input0 = inp
    /\ input = inp
    /\ LastChar = CH_SPACE
    /\ IdentifierStr = <<>>
    /\ NumVal = ZeroVal
    /\ CurTok = 0
    /\ BinopPrecedence = <<>>
    /\ pc = p
    /\ nread = 0
    /\ ntok = 0
    /\ toks = <<>>
    /\ last = NoCall

InitLex == \E inp \in LexInputs : InitWith(inp, "lex")

GetTok ==
    /\ pc = "lex"
    /\ Len(toks) < MaxCalls
    /\ \E r \in {gettok(State)} :
          /\ Install(r.s)
          /\ toks' = Append(toks, TokenOf(r))
    /\ UNCHANGED <<pc, input0, last>>

NextLex == GetTok

SpecLex == InitLex /\ [][NextLex]_vars

-----------------------------------------------------------------------------
(* The inputs main is run on *)

RECURSIVE Flatten(_)
Flatten(ss) == IF ss = <<>> THEN <<>> ELSE Head(ss) \o Flatten(Tail(ss))

\* "1" "x" "+" "(" ")" "," ";" "def " "extern "
Lexemes ==
    {<<49>>, <<120>>, <<CH_PLUS>>, <<CH_LPAREN>>, <<CH_RPAREN>>, <<CH_COMMA>>,
     <<CH_SEMI>>, STR_def \o <<CH_SPACE>>, STR_extern \o <<CH_SPACE>>}

GeneralInputs ==
    {Flatten(ls) : ls \in UNION {[1..n -> Lexemes] : n \in 0..MaxLexemes}}

\* primaries "1" and "x" joined by the four operators
PrimChars == {49, 120}
OpChars == {CH_LT, CH_PLUS, CH_MINUS, CH_STAR}

RECURSIVE Chains(_)
Chains(n) ==
    IF n = 1 THEN {<<p>> : p \in PrimChars}
    ELSE {c \o <<o, p>> : c \in Chains(n - 1), o \in OpChars, p \in PrimChars}

ChainInputs == UNION {Chains(n) : n \in 1..MaxOperands}

\* def NAME ( P1 ... Pn ) EXPR
DefNames == {<<102>>, <<102, 111, 111>>}
DefParamNames == {<<120>>, <<121>>}
DefBodies == {<<120>>, <<49>>, <<120, CH_PLUS, 121>>, <<121, CH_STAR, 120, CH_PLUS, 49>>}
DefParamLists == UNION {[1..n -> DefParamNames] : n \in 0..MaxParams}

RECURSIVE JoinWithSpace(_)
JoinWithSpace(ps) ==
    IF ps = <<>> THEN <<>>
    ELSE IF Len(ps) = 1 THEN Head(ps)
    ELSE Head(ps) \o <<CH_SPACE>> \o JoinWithSpace(Tail(ps))

DefText(name, params, body) ==
    STR_def \o <<CH_SPACE>> \o name \o <<CH_LPAREN>> \o JoinWithSpace(params)
        \o <<CH_RPAREN, CH_SPACE>> \o body

DefInputs ==
    {DefText(nm, ps, b) : nm \in DefNames, ps \in DefParamLists, b \in DefBodies}

Init ==
    \/ \E inp \in GeneralInputs : InitWith(inp, "start")
    \/ \E inp \in ChainInputs : InitWith(inp, "start")
    \/ \E inp \in DefInputs : InitWith(inp, "start")

-----------------------------------------------------------------------------
(* main and MainLoop: one action for main up to the loop, one for each     *)
(* case of the switch on CurTok                                            *)

Main ==
    /\ pc = "start"
    /\ \E s \in {getNextToken([State EXCEPT !.BinopPrecedence =
                   MapSet(MapSet(MapSet(MapSet(@, CH_LT, 10), CH_PLUS, 20),
                                 CH_MINUS, 30), CH_STAR, 40)])} :
          Install(s)
    /\ pc' = "loop"
    /\ UNCHANGED <<input0, toks, last>>

MainLoopReturn ==
    /\ pc = "loop"
    /\ CurTok = tok_eof
    /\ pc' = "done"
    /\ UNCHANGED <<input, LastChar, IdentifierStr, NumVal, CurTok, BinopPrecedence,
                   input0, nread, ntok, toks, last>>

MainLoopSemicolon ==
    /\ pc = "loop"
    /\ CurTok = CH_SEMI
    /\ \E s \in {getNextToken(State)} : Install(s)
    /\ last' = [NoCall EXCEPT !.kind = "semi", !.ntok0 = ntok]
    /\ UNCHANGED <<pc, input0, toks>>

MainLoopDefinition ==
    /\ pc = "loop"
    /\ CurTok = tok_def
    /\ \E h \in {HandleDefinition(State)} :
          /\ Install(h.s)
          /\ last' = CallRecord("def", h)
    /\ UNCHANGED <<pc, input0, toks>>

MainLoopExtern ==
    /\ pc = "loop"
    /\ CurTok = tok_extern
    /\ \E h \in {HandleExtern(State)} :
          /\ Install(h.s)
          /\ last' = CallRecord("extern", h)
    /\ UNCHANGED <<pc, input0, toks>>

MainLoopTopLevel ==
    /\ pc = "loop"
    /\ CurTok \notin {tok_eof, CH_SEMI, tok_def, tok_extern}
    /\ \E h \in {HandleTopLevelExpression(State)} :
          /\ Install(h.s)
          /\ last' = CallRecord("expr", h)
    /\ UNCHANGED <<pc, input0, toks>>

Next ==
    \/ Main
    \/ MainLoopReturn
    \/ MainLoopSemicolon
    \/ MainLoopDefinition
    \/ MainLoopExtern
    \/ MainLoopTopLevel

Spec == Init /\ [][Next]_vars

\* main runs on: each step of the program is taken once it can be
FairSpec == Spec /\ WF_vars(Next)

-----------------------------------------------------------------------------
(* What the properties below are stated with *)

ParseKinds == {"def", "extern", "expr"}

\* the precedence table as the specification gives it
PrecOf(op) ==
    IF op = CH_LT THEN 10
    ELSE IF op = CH_PLUS THEN 20
    ELSE IF op = CH_MINUS THEN 30
    ELSE IF op = CH_STAR THEN 40
    ELSE -1

InitialTable == [op \in OpChars |-> PrecOf(op)]

\* a parenthesis-free expression of one-character primaries joined by operators
IsChain(str) ==
    /\ Len(str) % 2 = 1
    /\ \A i \in 1..Len(str) :
          IF i % 2 = 1 THEN isalnum(str[i]) ELSE str[i] \in OpChars

SamePrecedence(str) ==
    \A i, j \in {k \in 1..Len(str) : k % 2 = 0} : PrecOf(str[i]) = PrecOf(str[j])

Leaf(c) ==
    IF isdigit(c) THEN NumberExprAST([m |-> c - 48, e |-> 0])
    ELSE VariableExprAST(<<c>>)

\* the place of the operator that binds loosest, the rightmost of them
SplitAt(str) ==
    CHOOSE k \in {i \in 1..Len(str) : i % 2 = 0} :
        \A j \in {i \in 1..Len(str) : i % 2 = 0} :
            \/ PrecOf(str[k]) < PrecOf(str[j])
            \/ PrecOf(str[k]) = PrecOf(str[j]) /\ j <= k

\* the tree of a chain: split at the loosest operator, the rightmost of them
RECURSIVE RefTree(_)
RefTree(str) ==
    IF Len(str) = 1 THEN Leaf(str[1])
    ELSE LET k == SplitAt(str)
         IN  BinaryExprAST(str[k], RefTree(SubSeq(str, 1, k - 1)),
                           RefTree(SubSeq(str, k + 1, Len(str))))

\* the fully left-nested tree of a chain
RECURSIVE LeftNest(_)
LeftNest(str) ==
    IF Len(str) = 1 THEN Leaf(str[1])
    ELSE BinaryExprAST(str[Len(str) - 1], LeftNest(SubSeq(str, 1, Len(str) - 2)),
                       Leaf(str[Len(str)]))

\* no right operand is itself an operation of the same precedence
RECURSIVE NoRightSame(_)
NoRightSame(tree) ==
    tree.k = "Binary" =>
        /\ tree.RHS.k = "Binary" => PrecOf(tree.RHS.Op) # PrecOf(tree.Op)
        /\ NoRightSame(tree.LHS)
        /\ NoRightSame(tree.RHS)

\* the input with each comment deleted, from '#' up to the end of line or of input
RECURSIVE StripComments(_, _)
StripComments(str, inComment) ==
    IF str = <<>> THEN <<>>
    ELSE IF inComment
    THEN IF Head(str) \in {CH_NL, CH_CR}
         THEN <<Head(str)>> \o StripComments(Tail(str), FALSE)
         ELSE StripComments(Tail(str), TRUE)
    ELSE IF Head(str) = CH_HASH THEN StripComments(Tail(str), TRUE)
    ELSE <<Head(str)>> \o StripComments(Tail(str), FALSE)

\* the tokens of an input, up to and with the first end-of-input token
RECURSIVE TokensFrom(_)
TokensFrom(s0) ==
    Val({ IF r.tok = tok_eof THEN <<TokenOf(r)>>
          ELSE <<TokenOf(r)>> \o TokensFrom(r.s)
          : r \in {gettok(s0)} })

Tokens(inp) == TokensFrom(StartState(inp))

\* the i-th token of a stream that goes on with end-of-input tokens
TokAt(T, i) == IF i <= Len(T) THEN T[i] ELSE T[Len(T)]

\* the first driver iteration has run on a chain, or on a def, that is the whole input
FirstCall(kind) == pc \in {"loop", "done"} /\ last.kind = kind /\ last.ntok0 = 1

-----------------------------------------------------------------------------
(* The properties *)

\* C1: a parenthesis-free expression of primaries joined by operators of the table
\* parses to the tree in which the higher-precedence operator binds tighter:
\* a op1 b op2 c gives Bin(op1, a, Bin(op2, b, c)) when prec(op2) > prec(op1) and
\* Bin(op2, Bin(op1, a, b), c) when prec(op1) > prec(op2); a longer chain gives the
\* tree split at its loosest operator.
C1_PrecedenceNesting ==
    (FirstCall("expr") /\ IsChain(input0)) =>
        /\ last.result = FunctionAST(PrototypeAST(<<>>, <<>>), RefTree(input0))
        /\ Len(input0) = 5 =>
              LET a == Leaf(input0[1])
                  b == Leaf(input0[3])
                  c == Leaf(input0[5])
                  op1 == input0[2]
                  op2 == input0[4]
              IN  /\ PrecOf(op2) > PrecOf(op1) =>
                        last.result.Body =
                            BinaryExprAST(op1, a, BinaryExprAST(op2, b, c))
                  /\ PrecOf(op1) > PrecOf(op2) =>
                        last.result.Body =
                            BinaryExprAST(op2, BinaryExprAST(op1, a, b), c)

C1_Witness ==
    /\ FirstCall("expr")
    /\ IsChain(input0)
    /\ Len(input0) = 5
    /\ PrecOf(input0[4]) > PrecOf(input0[2])
    /\ last.result # Null
    /\ last.result.Body.RHS.k = "Binary"

\* C2: a chain of n >= 2 primaries joined by operators of one precedence parses to
\* the fully left-nested tree, and in the tree of any chain no right operand is an
\* operation of the same precedence as its parent.
C2_LeftAssociative ==
    (FirstCall("expr") /\ IsChain(input0)) =>
        /\ last.result # Null
        /\ (Len(input0) >= 3 /\ SamePrecedence(input0)) =>
              last.result.Body = LeftNest(input0)
        /\ NoRightSame(last.result.Body)

C2_Witness ==
    /\ FirstCall("expr")
    /\ IsChain(input0)
    /\ Len(input0) >= 5
    /\ SamePrecedence(input0)
    /\ last.result # Null
    /\ last.result.Body.LHS.k = "Binary"

\* C3: on every input MainLoop reaches the end-of-input token with all of the input
\* read and returns, and every iteration that starts with a lookahead other than
\* end-of-input moves the lookahead at least one token on.
C3_MainLoopEnds ==
    /\ <>(pc = "done" /\ CurTok = tok_eof /\ input = <<>>)
    /\ [][(pc = "loop" /\ CurTok # tok_eof) => ntok' > ntok]_vars

C3_Witness ==
    /\ pc = "done"
    /\ last.kind \in ParseKinds
    /\ last.result = Null
    /\ last.ntok0 > 1

\* C4: once main has filled it, the precedence table holds the four operators and
\* nothing else, whatever has been parsed.
C4_TableReadOnly ==
    pc \in {"loop", "done"} => BinopPrecedence = InitialTable

\* C5: the tokens gettok returns, kinds and values, are those of the input with
\* its comments deleted.
C5_CommentsTransparent ==
    pc = "lex" =>
        \A i \in 1..Len(toks) :
            toks[i] = TokAt(Tokens(StripComments(input0, FALSE)), i)

C5_Witness ==
    /\ pc = "lex"
    /\ Len(input0) > Len(StripComments(input0, FALSE)) + 1
    /\ input0[Len(input0)] \notin {CH_NL, CH_CR, CH_HASH}
    /\ Len(toks) >= 2
    /\ toks[Len(toks)].tok = tok_eof
    /\ input = <<>>

\* C6: once gettok has returned end-of-input, the next call returns it again,
\* leaves LastChar as it is and calls getchar no more.
C6_EofIdempotent ==
    [][(pc = "lex" /\ toks # <<>> /\ toks[Len(toks)].tok = tok_eof) =>
          /\ toks'[Len(toks')].tok = tok_eof
          /\ LastChar' = LastChar
          /\ input' = input
          /\ nread' = nread]_vars

C6_Witness ==
    /\ pc = "lex"
    /\ Len(toks) >= 3
    /\ toks[Len(toks)].tok = tok_eof
    /\ toks[Len(toks) - 1].tok = tok_eof
    /\ Len(input0) > Len(StripComments(input0, FALSE))
    /\ input0[Len(input0)] \notin {CH_NL, CH_CR}

\* C7: when the expression after '(' is not followed by ')', the parse entry point
\* returns no result and the one diagnostic is "expected ')'".
C7_MissingParenFails ==
    last.parenMiss => (last.result = Null /\ last.errs = <<"expected ')'">>)

C7_Witness ==
    /\ last.parenMiss
    /\ last.kind = "expr"
    /\ last.endTok # tok_eof

\* C8: def NAME ( P1 ... Pn ) EXPR gives the function whose prototype is NAME with
\* the parameters P1 ... Pn in order, duplicates kept, and whose body is the tree
\* of EXPR.
C8_DefinitionRoundTrip ==
    FirstCall("def") =>
        \A nm \in DefNames, ps \in DefParamLists, b \in DefBodies :
            input0 = DefText(nm, ps, b) =>
                /\ last.result # Null
                /\ last.result.Proto.Name = nm
                /\ last.result.Proto.Args = ps
                /\ last.result.Body = RefTree(b)

C8_Witness ==
    /\ FirstCall("def")
    /\ input0 \in DefInputs
    /\ last.result # Null
    /\ Len(last.result.Proto.Args) = 2
    /\ last.result.Proto.Args[1] = last.result.Proto.Args[2]
    /\ last.result.Body.k = "Binary"

\* C9: after a failed parse the lookahead the parse ended on is the one token the
\* driver discards (none at end-of-input, where nothing more is read), and the next
\* dispatch is on the token that follows it in the token stream of the input.
C9_FailureRecovery ==
    (pc \in {"loop", "done"} /\ last.kind \in ParseKinds /\ last.result = Null) =>
        /\ last.endNtok >= last.ntok0
        /\ last.endTok = TokAt(Tokens(input0), last.endNtok).tok
        /\ ntok = IF last.endTok = tok_eof THEN last.endNtok ELSE last.endNtok + 1
        /\ last.endTok = tok_eof => nread = last.endNread
        /\ CurTok = TokAt(Tokens(input0), ntok).tok

C9_Witness ==
    /\ pc = "loop"
    /\ last.kind = "extern"
    /\ last.result = Null
    /\ last.endNtok > last.ntok0 + 1
    /\ last.endTok # tok_eof
    /\ CurTok # tok_eof

\* C10: a parse entry point returns no result exactly when it emitted one
\* diagnostic, and emits none when it returns a result.
C10_OneDiagnosticPerFailure ==
    last.kind \in ParseKinds =>
        /\ (last.result = Null) <=> (Len(last.errs) = 1)
        /\ last.result # Null => last.errs = <<>>

C10_Witness ==
    /\ last.kind = "def"
    /\ last.result = Null
    /\ last.errs = <<"Expected ')' in prototype">>

====
